---- MODULE Spec2Model ----
(***************************************************************************)
(* Model of src/setup/proxy-wrapper.py: a local forward proxy that accepts *)
(* client connections, runs one handler thread per connection              *)
(* (handle_client), gates the upstream part of each handler with a         *)
(* threading.Semaphore, and forwards CONNECT tunnels (handle_connect,      *)
(* relay_data) and plain HTTP requests (handle_http) to an upstream proxy. *)
(*                                                                         *)
(* Bytes are abstracted to classes that the code's tests distinguish:      *)
(*   request_data : ""   nothing read                                      *)
(*                  "P"  bytes of a non-CONNECT line, no CRLF yet          *)
(*                  "Cp" "CONNECT host:port", no CRLF yet                  *)
(*                  "C1" "CONNECT\r\n" (one whitespace-separated token)    *)
(*                  "C2" "CONNECT host:port HTTP/1.1\r\n..."               *)
(*                  "HL" a non-CONNECT request line with CRLF, header      *)
(*                       block not yet ended                               *)
(*                  "HF" a non-CONNECT request with its blank line         *)
(*   response     : ""   nothing read                                      *)
(*                  "Np" no blank line yet, first line without 200         *)
(*                  "Yp" no blank line yet, first line with 200            *)
(*                  "N"  blank line seen, first line without 200           *)
(*                  "Y"  blank line seen, first line with 200              *)
(* What is written to a socket is a sequence of tokens <<kind, n>>:        *)
(*   <<"data", n>>   the n-th chunk the peer at the other end wrote        *)
(*   <<"400", 0>>, <<"502", 0>>   a status line synthesized by the proxy   *)
(*   <<r, 0>>        the upstream's CONNECT response of class r            *)
(*   <<"CONNECT", 0>>  the CONNECT request sent upstream                   *)
(*   <<d, 0>>        the HTTP request of class d sent upstream             *)
(***************************************************************************)
EXTENDS Naturals, Integers, Sequences, FiniteSets, TLC

\* ---------------------------------------------------------------- bounds
\* Connections the listener accepts in one run.
NumConns == 2
\* MAX_CONCURRENT_CONNECTIONS as configured for the run (environment).
MaxConcurrent == 1
\* Chunks the peers write, in total, after the request and response heads:
\* with one connection (Quota) and with NumConns of them (ConcQuota).
Quota == 3
ConcQuota == 1
\* I/O calls that raise, in total, in one run.
MaxFaults == 2
\* Header lines and body lines of a request given to the rewriter.
MaxHeaders == 2
MaxBody == 2

\* the connections, in the order of their threads' creation
H == 1..NumConns

VARIABLES
    pc,             \* position of each handler thread
    sem,            \* threading.Semaphore._value
    acquired,       \* times handler h entered the with-block
    released,       \* times handler h left the with-block
    request_data,   \* handle_client's buffer, by class
    client_closed,  \* times client_sock.close() ran for connection h
    upstream_sock,  \* "none" | "unconnected" | "open" | "closed"
    dials,          \* upstream_sock.connect calls made for connection h
    response,       \* handle_connect's buffer, by class
    tunnel,         \* relay_data was entered for connection h
    readable,       \* relay_data: the list select returned, not yet served
    idle,           \* relay_data: the last select returned on its timeout
    cIn, uIn,       \* chunks written by client / upstream, not yet recv'd
    cEof, uEof,     \* the peer has closed its sending side
    cOut, uOut,     \* tokens the proxy wrote to client / upstream
    cSent, uSent,   \* chunks the client / upstream has written so far
    cFull,          \* the client has stopped reading and the path to it is full
    quota,          \* chunks the peers may still write
    faults,         \* I/O calls that may still raise
    auth_header,    \* ProxyHandler.auth_header ("" for None)
    rw_request,     \* rewriter: request_data on entry, as its CRLF split
    rw_sent,        \* rewriter: what upstream_sock.sendall was given
    rw_pc           \* rewriter: "start" | "sent" | "off"

semv == <<sem, acquired, released>>
upv  == <<upstream_sock, dials, response, uOut>>
relv == <<tunnel, readable, idle>>
envv == <<cIn, uIn, cEof, uEof, cSent, uSent, quota>>
fltv == <<faults>>
cliv == <<cOut, cFull>>
rwv  == <<auth_header, rw_request, rw_sent, rw_pc>>
vars == <<pc, sem, acquired, released, request_data, client_closed,
          upstream_sock, dials, response, tunnel, readable, idle,
          cIn, uIn, cEof, uEof, cOut, uOut, cSent, uSent, cFull, quota, faults,
          auth_header, rw_request, rw_sent, rw_pc>>

\* ------------------------------------------------- tests on byte classes
\* b"\r\n" in request_data
HasCRLF(d) == d \in {"C1", "C2", "HL", "HF"}
\* b"\r\n\r\n" in request_data
HasBlank(d) == d = "HF"
\* request_line.startswith("CONNECT")
StartsWithConnect(d) == d \in {"Cp", "C1", "C2"}
\* len(request_line.split())
NumParts(d) == IF d = "C1" THEN 1 ELSE 2
\* request_data + chunk, for a chunk that changes the class
MoreRequest(d) ==
    CASE d = ""   -> {"P", "Cp", "C1", "C2", "HL", "HF"}
      [] d = "P"  -> {"HL", "HF"}
      [] d = "Cp" -> {"C2"}
      [] d = "HL" -> {"HF"}
      [] OTHER    -> {}
\* b"\r\n\r\n" in response
RespComplete(r) == r \in {"N", "Y"}
\* b"200" in response.split(b"\r\n")[0]
Has200(r) == r \in {"Yp", "Y"}
\* response + chunk
MoreResponse(r) ==
    CASE r = ""   -> {"Np", "Yp", "N", "Y"}
      [] r = "Np" -> {"N"}
      [] r = "Yp" -> {"Y"}
      [] OTHER    -> {}

Holds(h) == acquired[h] > released[h]
NumHolding == Cardinality({h \in H : Holds(h)})

\* client_sock.sendall(tok): blocks while the path to the client is full
SendClient(h, tok) ==
    /\ ~cFull[h]
    /\ cOut' = [cOut EXCEPT ![h] = Append(@, tok)]
    /\ UNCHANGED cFull

Goto(h, l) == pc' = [pc EXCEPT ![h] = l]

\* ----------------------------------------------------------------- main
\* Accept as it would be if the listener took a token before accepting
Accept_WhenFree(h) ==
    /\ pc[h] = "idle"
    /\ \A g \in 1..(h - 1) : pc[g] # "idle"
    /\ sem > 0
    /\ Goto(h, "recv_first")
    /\ UNCHANGED <<semv, request_data, client_closed, upv, relv, envv, cliv, rwv, fltv>>

\* server_sock.accept() and thread.start(): one loop accepts the connections
\* one after the other, h being the h-th it accepts
Accept(h) ==
    /\ pc[h] = "idle"
    /\ \A g \in 1..(h - 1) : pc[g] # "idle"
    /\ Goto(h, "recv_first")
    /\ UNCHANGED <<semv, request_data, client_closed, upv, relv, envv, cliv, rwv, fltv>>

\* -------------------------------------------------------- handle_client
\* while b"\r\n" not in request_data: chunk = client_sock.recv(4096) ...
RecvFirst(h) ==
    /\ pc[h] = "recv_first"
    /\ ~cEof[h]
    /\ \E d \in MoreRequest(request_data[h]) :
         /\ request_data' = [request_data EXCEPT ![h] = d]
         /\ Goto(h, IF HasCRLF(d) THEN "acquire" ELSE "recv_first")
    /\ UNCHANGED <<semv, client_closed, upv, relv, envv, cliv, rwv, fltv>>

\* RecvFirstEof as it would be without the return on an empty request_data
RecvFirstEof_NoReturn(h) ==
    /\ pc[h] = "recv_first"
    /\ cEof' = [cEof EXCEPT ![h] = TRUE]
    /\ Goto(h, "acquire")
    /\ UNCHANGED <<semv, request_data, client_closed, upv, relv,
                   cIn, uIn, uEof, cSent, uSent, quota, cliv, rwv, fltv>>

\* if not chunk: break; if not request_data: return
RecvFirstEof(h) ==
    /\ pc[h] = "recv_first"
    /\ cEof' = [cEof EXCEPT ![h] = TRUE]
    /\ Goto(h, IF request_data[h] = "" THEN "finally" ELSE "acquire")
    /\ UNCHANGED <<semv, request_data, client_closed, upv, relv,
                   cIn, uIn, uEof, cSent, uSent, quota, cliv, rwv, fltv>>

\* client_sock.recv raises (connection reset): except Exception, finally
RecvFirstFail(h) ==
    /\ pc[h] = "recv_first"
    /\ faults > 0
    /\ faults' = faults - 1
    /\ Goto(h, "finally")
    /\ UNCHANGED <<semv, request_data, client_closed, upv, relv, envv, cliv, rwv>>

\* Acquire as it would be if acquire() did not wait for a free token
Acquire_NoBlock(h) ==
    /\ pc[h] = "acquire"
    /\ sem' = sem - 1
    /\ acquired' = [acquired EXCEPT ![h] = @ + 1]
    /\ Goto(h, IF StartsWithConnect(request_data[h]) THEN "connect_parse"
               ELSE IF HasBlank(request_data[h]) THEN "http_dial"
               ELSE "recv_rest")
    /\ UNCHANGED <<released, request_data, client_closed, upv, relv, envv, cliv,
                   rwv, fltv>>

\* with semaphore: (blocks while _value is 0), then the routing test
Acquire(h) ==
    /\ pc[h] = "acquire"
    /\ sem > 0
    /\ sem' = sem - 1
    /\ acquired' = [acquired EXCEPT ![h] = @ + 1]
    /\ Goto(h, IF StartsWithConnect(request_data[h]) THEN "connect_parse"
               ELSE IF HasBlank(request_data[h]) THEN "http_dial"
               ELSE "recv_rest")
    /\ UNCHANGED <<released, request_data, client_closed, upv, relv, envv, cliv, rwv, fltv>>

\* while b"\r\n\r\n" not in request_data: chunk = client_sock.recv(4096) ...
RecvRest(h) ==
    /\ pc[h] = "recv_rest"
    /\ ~cEof[h]
    /\ \E d \in MoreRequest(request_data[h]) :
         /\ request_data' = [request_data EXCEPT ![h] = d]
         /\ Goto(h, IF HasBlank(d) THEN "http_dial" ELSE "recv_rest")
    /\ UNCHANGED <<semv, client_closed, upv, relv, envv, cliv, rwv, fltv>>

\* if not chunk: break (the client closes now)
RecvRestEof(h) ==
    /\ pc[h] = "recv_rest"
    /\ ~cEof[h]
    /\ cEof' = [cEof EXCEPT ![h] = TRUE]
    /\ Goto(h, "http_dial")
    /\ UNCHANGED <<semv, request_data, client_closed, upv, relv,
                   cIn, uIn, uEof, cSent, uSent, quota, cliv, rwv, fltv>>

\* if not chunk: break (the client had closed before the first loop ended:
\* recv returns b"" at once)
RecvRestClosed(h) ==
    /\ pc[h] = "recv_rest"
    /\ cEof[h]
    /\ Goto(h, "http_dial")
    /\ UNCHANGED <<semv, request_data, client_closed, upv, relv, envv, cliv, rwv,
                   fltv>>

\* client_sock.recv raises inside the with-block
RecvRestFail(h) ==
    /\ pc[h] = "recv_rest"
    /\ faults > 0
    /\ faults' = faults - 1
    /\ Goto(h, "release")
    /\ UNCHANGED <<semv, request_data, client_closed, upv, relv, envv, cliv, rwv>>

\* Release as it would be if the token were not given back to the semaphore
Release_NoIncrement(h) ==
    /\ pc[h] = "release"
    /\ released' = [released EXCEPT ![h] = @ + 1]
    /\ Goto(h, "finally")
    /\ UNCHANGED <<sem, acquired, request_data, client_closed, upv, relv, envv,
                   cliv, rwv, fltv>>

\* the with-block's exit: semaphore.release()
Release(h) ==
    /\ pc[h] = "release"
    /\ sem' = sem + 1
    /\ released' = [released EXCEPT ![h] = @ + 1]
    /\ Goto(h, "finally")
    /\ UNCHANGED <<acquired, request_data, client_closed, upv, relv, envv, cliv, rwv, fltv>>

\* Finally as it would be without client_sock.close()
Finally_NoClose(h) ==
    /\ pc[h] = "finally"
    /\ cFull' = [cFull EXCEPT ![h] = FALSE]
    /\ cIn' = [cIn EXCEPT ![h] = <<>>]
    /\ cEof' = [cEof EXCEPT ![h] = FALSE]
    /\ Goto(h, "done")
    /\ UNCHANGED <<semv, request_data, client_closed, upv, relv, uIn, uEof, cSent,
                   uSent, quota, fltv, cOut, rwv>>

\* finally: client_sock.close(); what the socket still buffered goes with it
Finally(h) ==
    /\ pc[h] = "finally"
    /\ client_closed' = [client_closed EXCEPT ![h] = @ + 1]
    /\ cFull' = [cFull EXCEPT ![h] = FALSE]
    /\ cIn' = [cIn EXCEPT ![h] = <<>>]
    /\ cEof' = [cEof EXCEPT ![h] = FALSE]
    /\ Goto(h, "done")
    /\ UNCHANGED <<semv, request_data, upv, relv, uIn, uEof, cSent, uSent,
                   quota, fltv, cOut, rwv>>

\* ------------------------------------------- ProxyHandler.handle_connect
\* ConnectParse as it would be without the test on the number of tokens
ConnectParse_NoCheck(h) ==
    /\ pc[h] = "connect_parse"
    /\ Goto(h, "connect_dial") /\ UNCHANGED cliv
    /\ UNCHANGED <<semv, request_data, client_closed, upv, relv, envv, rwv, fltv>>

\* parts = request_line.split(); if len(parts) < 2: sendall(400); return
ConnectParse(h) ==
    /\ pc[h] = "connect_parse"
    /\ IF NumParts(request_data[h]) < 2
       THEN SendClient(h, <<"400", 0>>) /\ Goto(h, "release")
       ELSE Goto(h, "connect_dial") /\ UNCHANGED cliv
    /\ UNCHANGED <<semv, request_data, client_closed, upv, relv, envv, rwv, fltv>>

\* the client socket is broken: sendall(400) raises, and so does the sendall
\* of the 502 in the except clause, which passes
ConnectParseFail(h) ==
    /\ pc[h] = "connect_parse"
    /\ NumParts(request_data[h]) < 2
    /\ faults > 0
    /\ faults' = faults - 1
    /\ Goto(h, "release")
    /\ UNCHANGED <<semv, request_data, client_closed, upv, relv, envv, cliv, rwv>>

\* upstream_sock = socket.socket(...); settimeout(30); connect(...)
ConnectDial(h) ==
    /\ pc[h] = "connect_dial"
    /\ upstream_sock' = [upstream_sock EXCEPT ![h] = "open"]
    /\ dials' = [dials EXCEPT ![h] = @ + 1]
    /\ Goto(h, "connect_send")
    /\ UNCHANGED <<semv, request_data, client_closed, response, uOut, relv, envv,
                   cliv, rwv, fltv>>

\* ConnectDialFail as it would be if a failed connect were tried again
ConnectDialFail_Retry(h) ==
    /\ pc[h] = "connect_dial"
    /\ upstream_sock' = [upstream_sock EXCEPT ![h] = "unconnected"]
    /\ dials' = [dials EXCEPT ![h] = @ + 1]
    /\ faults > 0
    /\ faults' = faults - 1
    /\ Goto(h, "connect_dial")
    /\ UNCHANGED <<semv, request_data, client_closed, response, uOut, relv, envv,
                   cliv, rwv>>

\* connect raises (refused, timeout): the socket stays as created, unconnected
ConnectDialFail(h) ==
    /\ pc[h] = "connect_dial"
    /\ upstream_sock' = [upstream_sock EXCEPT ![h] = "unconnected"]
    /\ dials' = [dials EXCEPT ![h] = @ + 1]
    /\ faults > 0
    /\ faults' = faults - 1
    /\ Goto(h, "connect_except")
    /\ UNCHANGED <<semv, request_data, client_closed, response, uOut, relv, envv,
                   cliv, rwv>>

\* upstream_sock.sendall(connect_request.encode())
ConnectSend(h) ==
    /\ pc[h] = "connect_send"
    /\ uOut' = [uOut EXCEPT ![h] = Append(@, <<"CONNECT", 0>>)]
    /\ Goto(h, "connect_recv")
    /\ UNCHANGED <<semv, request_data, client_closed, upstream_sock, dials,
                   response, relv, envv, cliv, rwv, fltv>>

ConnectSendFail(h) ==
    /\ pc[h] = "connect_send"
    /\ faults > 0
    /\ faults' = faults - 1
    /\ Goto(h, "connect_except")
    /\ UNCHANGED <<semv, request_data, client_closed, upv, relv, envv, cliv, rwv>>

\* while b"\r\n\r\n" not in response: chunk = upstream_sock.recv(4096) ...
ConnectRecv(h) ==
    /\ pc[h] = "connect_recv"
    /\ ~uEof[h]
    /\ \E r \in MoreResponse(response[h]) :
         /\ response' = [response EXCEPT ![h] = r]
         /\ Goto(h, IF RespComplete(r) THEN "connect_forward" ELSE "connect_recv")
    /\ UNCHANGED <<semv, request_data, client_closed, upstream_sock, dials, uOut,
                   relv, envv, cliv, rwv, fltv>>

\* if not chunk: break
ConnectRecvEof(h) ==
    /\ pc[h] = "connect_recv"
    /\ uEof' = [uEof EXCEPT ![h] = TRUE]
    /\ Goto(h, "connect_forward")
    /\ UNCHANGED <<semv, request_data, client_closed, upv, relv,
                   cIn, uIn, cEof, cSent, uSent, quota, cliv, rwv, fltv>>

\* upstream_sock.recv raises: socket.timeout after 30 s, or a reset
ConnectRecvFail(h) ==
    /\ pc[h] = "connect_recv"
    /\ faults > 0
    /\ faults' = faults - 1
    /\ Goto(h, "connect_except")
    /\ UNCHANGED <<semv, request_data, client_closed, upv, relv, envv, cliv, rwv>>

\* ConnectForward as it would be if the relay were entered whatever the status
ConnectForward_AlwaysRelay(h) ==
    /\ pc[h] = "connect_forward"
    /\ IF response[h] = ""
       THEN UNCHANGED cliv
       ELSE SendClient(h, <<response[h], 0>>)
    /\ tunnel' = [tunnel EXCEPT ![h] = TRUE]
    /\ Goto(h, "select")
    /\ UNCHANGED <<semv, request_data, client_closed, upv, readable, idle, envv,
                   rwv, fltv>>

\* client_sock.sendall(response); if b"200" in first line: relay_data(...)
ConnectForward(h) ==
    /\ pc[h] = "connect_forward"
    /\ IF response[h] = ""
       THEN UNCHANGED cliv
       ELSE SendClient(h, <<response[h], 0>>)
    /\ IF Has200(response[h])
       THEN tunnel' = [tunnel EXCEPT ![h] = TRUE] /\ Goto(h, "select")
       ELSE UNCHANGED tunnel /\ Goto(h, "connect_close")
    /\ UNCHANGED <<semv, request_data, client_closed, upv, readable, idle, envv, rwv, fltv>>

\* the client socket is broken: sendall(response) raises, and so does the
\* sendall of the 502 in the except clause, which passes
ConnectForwardFail(h) ==
    /\ pc[h] = "connect_forward"
    /\ response[h] # ""
    /\ faults > 0
    /\ faults' = faults - 1
    /\ Goto(h, "release")
    /\ UNCHANGED <<semv, request_data, client_closed, upv, relv, envv, cliv, rwv>>

\* upstream_sock.close()
ConnectClose(h) ==
    /\ pc[h] = "connect_close"
    /\ upstream_sock' = [upstream_sock EXCEPT ![h] = "closed"]
    /\ uIn' = [uIn EXCEPT ![h] = <<>>]
    /\ uEof' = [uEof EXCEPT ![h] = FALSE]
    /\ Goto(h, "release")
    /\ UNCHANGED <<semv, request_data, client_closed, dials, response, uOut, relv,
                   cIn, cEof, cSent, uSent, quota, fltv, cliv, rwv>>

\* ConnectExcept as it would be if the exception skipped the with-block's exit
ConnectExcept_NoRelease(h) ==
    /\ pc[h] = "connect_except"
    /\ SendClient(h, <<"502", 0>>)
    /\ Goto(h, "finally")
    /\ UNCHANGED <<semv, request_data, client_closed, upv, relv, envv, rwv, fltv>>

\* except Exception: ... client_sock.sendall(502)
ConnectExcept(h) ==
    /\ pc[h] = "connect_except"
    /\ SendClient(h, <<"502", 0>>)
    /\ Goto(h, "release")
    /\ UNCHANGED <<semv, request_data, client_closed, upv, relv, envv, rwv, fltv>>

\* ... except: pass
ConnectExceptFail(h) ==
    /\ pc[h] = "connect_except"
    /\ faults > 0
    /\ faults' = faults - 1
    /\ Goto(h, "release")
    /\ UNCHANGED <<semv, request_data, client_closed, upv, relv, envv, cliv, rwv>>

\* ----------------------------------------------------------- relay_data
\* what select finds readable, in the order of sockets = [client, upstream]
SelectReadable(h) ==
    (IF cIn[h] # <<>> \/ cEof[h] THEN <<"c">> ELSE <<>>)
    \o (IF uIn[h] # <<>> \/ uEof[h] THEN <<"u">> ELSE <<>>)

\* readable, _, exceptional = select.select(sockets, [], sockets, 30)
Select(h) ==
    /\ pc[h] = "select"
    /\ SelectReadable(h) # <<>>
    /\ readable' = [readable EXCEPT ![h] = SelectReadable(h)]
    /\ idle' = [idle EXCEPT ![h] = FALSE]
    /\ Goto(h, "relay_copy")
    /\ UNCHANGED <<semv, request_data, client_closed, upv, tunnel, envv, cliv, rwv, fltv>>

\* select returns three empty lists after 30 s: the for loop does nothing
\* and while True runs select again
SelectTimeout(h) ==
    /\ pc[h] = "select"
    /\ SelectReadable(h) = <<>>
    /\ idle' = [idle EXCEPT ![h] = TRUE]
    /\ UNCHANGED <<pc, semv, request_data, client_closed, upv, tunnel, readable,
                   envv, cliv, rwv, fltv>>

\* if exceptional: break
SelectExceptional(h) ==
    /\ pc[h] = "select"
    /\ idle' = [idle EXCEPT ![h] = FALSE]
    /\ Goto(h, "connect_close")
    /\ UNCHANGED <<semv, request_data, client_closed, upv, tunnel, readable,
                   envv, cliv, rwv, fltv>>

AfterCopy(h) ==
    /\ readable' = [readable EXCEPT ![h] = Tail(@)]
    /\ Goto(h, IF Tail(readable[h]) = <<>> THEN "select" ELSE "relay_copy")

\* sock is client_sock: data = sock.recv(4096); upstream_sock.sendall(data)
RelayFromClient(h) ==
    /\ pc[h] = "relay_copy"
    /\ Head(readable[h]) = "c"
    /\ cIn[h] # <<>>
    /\ uOut' = [uOut EXCEPT ![h] = Append(@, <<"data", Head(cIn[h])>>)]
    /\ cIn' = [cIn EXCEPT ![h] = Tail(@)]
    /\ AfterCopy(h)
    /\ UNCHANGED <<semv, request_data, client_closed, upstream_sock, dials,
                   response, tunnel, idle, uIn, cEof, uEof, cSent, uSent, quota,
                   cliv, rwv, fltv>>

\* sock is upstream_sock: data = sock.recv(4096); client_sock.sendall(data)
RelayFromUpstream(h) ==
    /\ pc[h] = "relay_copy"
    /\ Head(readable[h]) = "u"
    /\ uIn[h] # <<>>
    /\ SendClient(h, <<"data", Head(uIn[h])>>)
    /\ uIn' = [uIn EXCEPT ![h] = Tail(@)]
    /\ AfterCopy(h)
    /\ UNCHANGED <<semv, request_data, client_closed, upv, tunnel, idle,
                   cIn, cEof, uEof, cSent, uSent, quota, rwv, fltv>>

\* if not data: return
RelayEof(h) ==
    /\ pc[h] = "relay_copy"
    /\ \/ Head(readable[h]) = "c" /\ cIn[h] = <<>>
       \/ Head(readable[h]) = "u" /\ uIn[h] = <<>>
    /\ readable' = [readable EXCEPT ![h] = <<>>]
    /\ Goto(h, "connect_close")
    /\ UNCHANGED <<semv, request_data, client_closed, upv, tunnel, idle, envv,
                   cliv, rwv, fltv>>

\* recv or sendall raises inside relay_data: handle_connect's except
RelayFail(h) ==
    /\ pc[h] = "relay_copy"
    /\ readable' = [readable EXCEPT ![h] = <<>>]
    /\ faults > 0
    /\ faults' = faults - 1
    /\ Goto(h, "connect_except")
    /\ UNCHANGED <<semv, request_data, client_closed, upv, tunnel, idle, envv,
                   cliv, rwv>>

\* ---------------------------------------------- ProxyHandler.handle_http
\* upstream_sock = socket.socket(...); settimeout(30); connect(...)
HttpDial(h) ==
    /\ pc[h] = "http_dial"
    /\ upstream_sock' = [upstream_sock EXCEPT ![h] = "open"]
    /\ dials' = [dials EXCEPT ![h] = @ + 1]
    /\ Goto(h, "http_send")
    /\ UNCHANGED <<semv, request_data, client_closed, response, uOut, relv, envv,
                   cliv, rwv, fltv>>

\* connect raises (refused, timeout)
HttpDialFail(h) ==
    /\ pc[h] = "http_dial"
    /\ upstream_sock' = [upstream_sock EXCEPT ![h] = "unconnected"]
    /\ dials' = [dials EXCEPT ![h] = @ + 1]
    /\ faults > 0
    /\ faults' = faults - 1
    /\ Goto(h, "http_except")
    /\ UNCHANGED <<semv, request_data, client_closed, response, uOut, relv, envv,
                   cliv, rwv>>

\* (header injection, see Rewrite) upstream_sock.sendall(request_data)
HttpSend(h) ==
    /\ pc[h] = "http_send"
    /\ uOut' = [uOut EXCEPT ![h] = Append(@, <<request_data[h], 0>>)]
    /\ Goto(h, "http_recv")
    /\ UNCHANGED <<semv, request_data, client_closed, upstream_sock, dials,
                   response, relv, envv, cliv, rwv, fltv>>

HttpSendFail(h) ==
    /\ pc[h] = "http_send"
    /\ faults > 0
    /\ faults' = faults - 1
    /\ Goto(h, "http_except")
    /\ UNCHANGED <<semv, request_data, client_closed, upv, relv, envv, cliv, rwv>>

\* data = upstream_sock.recv(4096); client_sock.sendall(data)
HttpRecvData(h) ==
    /\ pc[h] = "http_recv"
    /\ uIn[h] # <<>>
    /\ SendClient(h, <<"data", Head(uIn[h])>>)
    /\ uIn' = [uIn EXCEPT ![h] = Tail(@)]
    /\ UNCHANGED <<pc, semv, request_data, client_closed, upv, relv,
                   cIn, cEof, uEof, cSent, uSent, quota, rwv, fltv>>

\* if not data: break
HttpRecvEof(h) ==
    /\ pc[h] = "http_recv"
    /\ uIn[h] = <<>>
    /\ uEof[h]
    /\ Goto(h, "http_close")
    /\ UNCHANGED <<semv, request_data, client_closed, upv, relv, envv, cliv, rwv, fltv>>

\* upstream_sock.recv raises socket.timeout: nothing arrived for 30 s
HttpRecvTimeout(h) ==
    /\ pc[h] = "http_recv"
    /\ uIn[h] = <<>>
    /\ ~uEof[h]
    /\ Goto(h, "http_except")
    /\ UNCHANGED <<semv, request_data, client_closed, upv, relv, envv, cliv, rwv, fltv>>

\* recv raises on a reset, or client_sock.sendall raises
HttpRecvFail(h) ==
    /\ pc[h] = "http_recv"
    /\ faults > 0
    /\ faults' = faults - 1
    /\ Goto(h, "http_except")
    /\ UNCHANGED <<semv, request_data, client_closed, upv, relv, envv, cliv, rwv>>

\* upstream_sock.close()
HttpClose(h) ==
    /\ pc[h] = "http_close"
    /\ upstream_sock' = [upstream_sock EXCEPT ![h] = "closed"]
    /\ uIn' = [uIn EXCEPT ![h] = <<>>]
    /\ uEof' = [uEof EXCEPT ![h] = FALSE]
    /\ Goto(h, "release")
    /\ UNCHANGED <<semv, request_data, client_closed, dials, response, uOut, relv,
                   cIn, cEof, cSent, uSent, quota, fltv, cliv, rwv>>

\* except Exception: ... client_sock.sendall(502)
HttpExcept(h) ==
    /\ pc[h] = "http_except"
    /\ SendClient(h, <<"502", 0>>)
    /\ Goto(h, "release")
    /\ UNCHANGED <<semv, request_data, client_closed, upv, relv, envv, rwv, fltv>>

\* ... except: pass
HttpExceptFail(h) ==
    /\ pc[h] = "http_except"
    /\ faults > 0
    /\ faults' = faults - 1
    /\ Goto(h, "release")
    /\ UNCHANGED <<semv, request_data, client_closed, upv, relv, envv, cliv, rwv>>

\* ------------------------------------------------------------ the peers
\* positions at which the handler copies what the upstream writes
Streaming == {"select", "relay_copy", "http_recv"}
\* positions inside relay_data
Relaying == {"select", "relay_copy"}

\* the client writes its next chunk
ClientSend(h) ==
    /\ pc[h] \in Streaming
    /\ ~cEof[h]
    /\ quota > 0
    /\ quota' = quota - 1
    /\ cSent' = [cSent EXCEPT ![h] = @ + 1]
    /\ cIn' = [cIn EXCEPT ![h] = Append(@, cSent[h] + 1)]
    /\ UNCHANGED <<pc, semv, request_data, client_closed, upv, relv,
                   uIn, cEof, uEof, uSent, cliv, rwv, fltv>>

\* the upstream writes its next chunk
UpstreamSend(h) ==
    /\ pc[h] \in Streaming
    /\ ~uEof[h]
    /\ quota > 0
    /\ quota' = quota - 1
    /\ uSent' = [uSent EXCEPT ![h] = @ + 1]
    /\ uIn' = [uIn EXCEPT ![h] = Append(@, uSent[h] + 1)]
    /\ UNCHANGED <<pc, semv, request_data, client_closed, upv, relv,
                   cIn, cEof, uEof, cSent, cliv, rwv, fltv>>

\* the client closes its side of an established tunnel
ClientClose(h) ==
    /\ pc[h] \in Relaying
    /\ ~cEof[h]
    /\ cEof' = [cEof EXCEPT ![h] = TRUE]
    /\ UNCHANGED <<pc, semv, request_data, client_closed, upv, relv,
                   cIn, uIn, uEof, cSent, uSent, quota, cliv, rwv, fltv>>

\* the upstream closes its side
UpstreamClose(h) ==
    /\ pc[h] \in Streaming
    /\ ~uEof[h]
    /\ uEof' = [uEof EXCEPT ![h] = TRUE]
    /\ UNCHANGED <<pc, semv, request_data, client_closed, upv, relv,
                   cIn, uIn, cEof, cSent, uSent, quota, cliv, rwv, fltv>>

\* the client stops reading what the tunnel or the response brings it, and
\* the buffers on the path to it fill up
ClientStall(h) ==
    /\ pc[h] \in Streaming
    /\ ~cFull[h]
    /\ \E i \in 1..Len(cOut[h]) : cOut[h][i][1] = "data"
    /\ cFull' = [cFull EXCEPT ![h] = TRUE]
    /\ UNCHANGED <<pc, semv, request_data, client_closed, upv, relv, envv, fltv,
                   cOut, rwv>>

\* the client reads again
ClientDrain(h) ==
    /\ cFull[h]
    /\ cFull' = [cFull EXCEPT ![h] = FALSE]
    /\ UNCHANGED <<pc, semv, request_data, client_closed, upv, relv, envv, fltv,
                   cOut, rwv>>

\* ------------------------------------- handle_http: header injection
\* The request is held as the list request_data.decode(...).split('\r\n')
\* gives, and what is sent as the list '\r\n'.join(...) is given; a list of
\* CRLF-free lines and the bytes joining them determine each other.
ReqLines == {"GET http://a/ HTTP/1.1", "POST http://a/ HTTP/1.1",
             "PUT http://a/ HTTP/1.1", "DELETE /x HTTP/1.1"}
HdrLines == {"Host: a", "Accept: x"}
BodyLines == {"", "body", "k:v", "b\\xff"}
\* f"Proxy-Authorization: {self.auth_header}"
AuthLine == "Proxy-Authorization: Basic dTpw"

\* ':' in line
HasColon(line) ==
    line \in {"GET http://a/ HTTP/1.1", "POST http://a/ HTTP/1.1",
              "PUT http://a/ HTTP/1.1", "Host: a", "Accept: x", "k:v", AuthLine}
\* line.startswith('Host:') or line.startswith('GET') or line.startswith('POST')
SkipLine(line) ==
    line \in {"GET http://a/ HTTP/1.1", "POST http://a/ HTTP/1.1", "Host: a"}
\* decode('utf-8', errors='ignore') of one line: bytes that are not UTF-8 go
Decode(line) == IF line = "b\\xff" THEN "b" ELSE line

\* list.insert(i, x): a negative i counts from the end, and is clamped
PyInsert(s, i, x) ==
    LET n == Len(s)
        k == IF i < 0 THEN (IF n + i < 0 THEN 0 ELSE n + i)
             ELSE (IF i > n THEN n ELSE i)
    IN  SubSeq(s, 1, k) \o <<x>> \o SubSeq(s, k + 1, n)

\* for line in lines: new_lines.append(line); if line and not header_added
\* and ':' in line: (continue on Host:/GET/POST) new_lines.insert(-1, ...)
RECURSIVE InjectLoop(_, _, _)
InjectLoop(lines, new_lines, header_added) ==
    IF lines = <<>> THEN <<new_lines, header_added>>
    ELSE LET line == Head(lines)
             appended == Append(new_lines, line)
         IN  IF line # "" /\ ~header_added /\ HasColon(line) /\ ~SkipLine(line)
             THEN InjectLoop(Tail(lines), PyInsert(appended, -1, AuthLine), TRUE)
             ELSE InjectLoop(Tail(lines), appended, header_added)

\* if self.auth_header: ... if not header_added: new_lines.insert(-2, ...)
Rewrite(request, auth) ==
    IF auth = "" THEN request
    ELSE LET lines == [i \in 1..Len(request) |-> Decode(request[i])]
             r == InjectLoop(lines, <<>>, FALSE)
         IN  IF r[2] THEN r[1] ELSE PyInsert(r[1], -2, AuthLine)

\* upstream_sock.sendall(request_data), for one buffered request
RewriteAndSend ==
    /\ rw_pc = "start"
    /\ rw_sent' = Rewrite(rw_request, auth_header)
    /\ rw_pc' = "sent"
    /\ UNCHANGED <<pc, semv, request_data, client_closed, upv, relv, envv, fltv,
                   cliv, auth_header, rw_request>>

SeqsUpTo(S, n) == UNION {[1..k -> S] : k \in 0..n}

\* a request line, header lines, the blank line and the lines of the body
\* (<<"">> when there is no body)
Requests ==
    {<<l>> \o hs \o <<"">> \o bs :
        l \in ReqLines, hs \in SeqsUpTo(HdrLines, MaxHeaders),
        bs \in SeqsUpTo(BodyLines, MaxBody) \ {<<>>}}

\* ------------------------------------------------------- specifications
relay_data(h) ==
    \/ Select(h) \/ SelectTimeout(h) \/ SelectExceptional(h)
    \/ RelayFromClient(h) \/ RelayFromUpstream(h) \/ RelayEof(h) \/ RelayFail(h)

handle_connect(h) ==
    \/ ConnectParse(h) \/ ConnectParseFail(h)
    \/ ConnectDial(h) \/ ConnectDialFail(h)
    \/ ConnectSend(h) \/ ConnectSendFail(h)
    \/ ConnectRecv(h) \/ ConnectRecvEof(h) \/ ConnectRecvFail(h)
    \/ ConnectForward(h) \/ ConnectForwardFail(h)
    \/ relay_data(h)
    \/ ConnectClose(h) \/ ConnectExcept(h) \/ ConnectExceptFail(h)

handle_http(h) ==
    \/ HttpDial(h) \/ HttpDialFail(h)
    \/ HttpSend(h) \/ HttpSendFail(h)
    \/ HttpRecvData(h) \/ HttpRecvEof(h) \/ HttpRecvTimeout(h) \/ HttpRecvFail(h)
    \/ HttpClose(h) \/ HttpExcept(h) \/ HttpExceptFail(h)

handle_client(h) ==
    \/ RecvFirst(h) \/ RecvFirstEof(h) \/ RecvFirstFail(h)
    \/ Acquire(h)
    \/ RecvRest(h) \/ RecvRestEof(h) \/ RecvRestClosed(h) \/ RecvRestFail(h)
    \/ handle_connect(h) \/ handle_http(h)
    \/ Release(h) \/ Finally(h)

Peer(h) ==
    \/ ClientSend(h) \/ UpstreamSend(h)
    \/ ClientClose(h) \/ UpstreamClose(h)
    \/ ClientStall(h) \/ ClientDrain(h)

\* the handlers and their sockets before any connection is accepted;
\* conns is the set of connections that will arrive
InitConns(conns, q, f) ==
    /\ pc = [h \in H |-> IF h \in conns THEN "idle" ELSE "unused"]
    /\ sem = MaxConcurrent
    /\ acquired = [h \in H |-> 0]
    /\ released = [h \in H |-> 0]
    /\ request_data = [h \in H |-> ""]
    /\ client_closed = [h \in H |-> 0]
    /\ upstream_sock = [h \in H |-> "none"]
    /\ dials = [h \in H |-> 0]
    /\ response = [h \in H |-> ""]
    /\ tunnel = [h \in H |-> FALSE]
    /\ readable = [h \in H |-> <<>>]
    /\ idle = [h \in H |-> FALSE]
    /\ cIn = [h \in H |-> <<>>]
    /\ uIn = [h \in H |-> <<>>]
    /\ cEof = [h \in H |-> FALSE]
    /\ uEof = [h \in H |-> FALSE]
    /\ cOut = [h \in H |-> <<>>]
    /\ uOut = [h \in H |-> <<>>]
    /\ cSent = [h \in H |-> 0]
    /\ uSent = [h \in H |-> 0]
    /\ cFull = [h \in H |-> FALSE]
    /\ quota = q
    /\ faults = f

\* NumConns connections arrive
Init ==
    /\ InitConns(H, ConcQuota, MaxFaults)
    /\ auth_header = ""
    /\ rw_request = <<>>
    /\ rw_sent = <<>>
    /\ rw_pc = "off"

\* one connection arrives, and its peers write up to Quota chunks
TunnelInit ==
    /\ InitConns({1}, Quota, MaxFaults)
    /\ auth_header = ""
    /\ rw_request = <<>>
    /\ rw_sent = <<>>
    /\ rw_pc = "off"

\* no connection arrives; handle_http's rewriting is applied to one request
RewriteInit ==
    /\ InitConns({}, 0, 0)
    /\ auth_header \in {"", "Basic dTpw"}
    /\ rw_request \in Requests
    /\ rw_sent = <<>>
    /\ rw_pc = "start"

Next == \E h \in H : Accept(h) \/ handle_client(h) \/ Peer(h)

RewriteNext == RewriteAndSend

\* What the code's blocking calls guarantee.  A handler thread that can run
\* does run.  upstream_sock has settimeout(30): connect, sendall and recv on
\* it return or raise within 30 s; select returns within 30 s.  client_sock
\* has no timeout: recv on it (RecvFirst, RecvRest and their Eof and Fail
\* outcomes) returns only when the client sends or closes or has closed
\* (RecvRestClosed), and sendall on it
\* returns once the client takes the bytes (~cFull): a client that reads
\* again and again is eventually served (SF), one that stops reading for
\* good blocks the call for ever.  No exception is ever bound to be raised,
\* and no peer is bound to write, close or read.
Progress(h) ==
    \/ Acquire(h) \/ RecvRestClosed(h) \/ Release(h) \/ Finally(h)
    \/ ConnectParse(h) \/ ConnectDial(h) \/ ConnectDialFail(h)
    \/ ConnectSend(h) \/ ConnectSendFail(h)
    \/ ConnectRecv(h) \/ ConnectRecvEof(h) \/ ConnectRecvFail(h)
    \/ ConnectForward(h) \/ ConnectClose(h) \/ ConnectExcept(h)
    \/ Select(h) \/ SelectTimeout(h) \/ SelectExceptional(h)
    \/ RelayFromClient(h) \/ RelayFromUpstream(h) \/ RelayEof(h)
    \/ HttpDial(h) \/ HttpDialFail(h) \/ HttpSend(h) \/ HttpSendFail(h)
    \/ HttpRecvData(h) \/ HttpRecvEof(h) \/ HttpRecvTimeout(h)
    \/ HttpClose(h) \/ HttpExcept(h)

\* the steps that end in client_sock.sendall
ClientWrites(h) ==
    \/ ConnectParse(h) \/ ConnectForward(h) \/ ConnectExcept(h)
    \/ RelayFromUpstream(h) \/ HttpRecvData(h) \/ HttpExcept(h)

Fairness ==
    \A h \in H :
        /\ WF_vars(Accept(h))
        /\ WF_vars(Progress(h))
        /\ SF_vars(ClientWrites(h))

Spec == Init /\ [][Next]_vars

FairSpec == Init /\ [][Next]_vars /\ Fairness

TunnelSpec == TunnelInit /\ [][Next]_vars /\ Fairness

RewriteSpec == RewriteInit /\ [][RewriteNext]_vars

\* --------------------------------------------------------------- claims
\* positions between the with-block's entry and its exit
UpstreamPhase ==
    {"recv_rest", "connect_parse", "connect_dial", "connect_send", "connect_recv",
     "connect_forward", "select", "relay_copy", "connect_close", "connect_except",
     "http_dial", "http_send", "http_recv", "http_close", "http_except", "release"}
\* positions whose next step dials, writes to, reads from or closes upstream
UpstreamIO ==
    {"connect_dial", "connect_send", "connect_recv", "select", "relay_copy",
     "connect_close", "http_dial", "http_send", "http_recv", "http_close"}

\* C1: at most MAX_CONCURRENT_CONNECTIONS handlers are in the upstream phase
\* (hold a token) at once, and a handler about to dial, write to, read from
\* or close an upstream socket holds a token.
C1_AdmissionBound ==
    /\ NumHolding <= MaxConcurrent
    /\ Cardinality({h \in H : pc[h] \in UpstreamPhase}) <= MaxConcurrent
    /\ \A h \in H : pc[h] \in UpstreamIO => Holds(h)

\* C1 witness: one handler waits in acquire while another, holding the last
\* token, has an upstream socket open
C1_Witness ==
    \E h, g \in H :
        /\ pc[h] = "acquire"
        /\ Holds(g) /\ upstream_sock[g] = "open" /\ pc[g] \in UpstreamIO
        /\ NumHolding = MaxConcurrent

\* C2: a handler releases at most what it acquired, acquires at most once,
\* and when it has finished it has released exactly what it acquired (so one
\* release per acquire on every exit path, none without an acquire).
C2_ReleaseOnce ==
    \A h \in H :
        /\ released[h] <= acquired[h]
        /\ acquired[h] <= 1
        /\ pc[h] = "done" => released[h] = acquired[h]

\* C2 witness: a handler finished after an exception inside the relay
C2_Witness ==
    \E h \in H :
        /\ pc[h] = "done" /\ acquired[h] = 1 /\ released[h] = 1
        /\ tunnel[h] /\ cOut[h][Len(cOut[h])] = <<"502", 0>>

\* C3: whatever the peers do, a handler that holds a token eventually holds
\* none.
C3_EventuallyReleased == \A h \in H : Holds(h) ~> ~Holds(h)

\* C4: a handler waits in acquire for ever only if, from some point on, all
\* MAX_CONCURRENT_CONNECTIONS tokens are held for ever: it is granted a token
\* once holders release, and is never left blocked while capacity is free.
C4_NoStarvation ==
    \A h \in H : <>[](pc[h] = "acquire") => <>[](NumHolding = MaxConcurrent)

\* C4 witness: a handler is blocked in acquire, every token being held
C4_Witness ==
    \E h \in H : pc[h] = "acquire" /\ sem = 0 /\ NumHolding = MaxConcurrent

\* C5: once a select of the relay has timed out with neither side readable,
\* the relay is left.
C5_IdleExit == \A h \in H : idle[h] => pc[h] \notin Relaying

\* C6: a client socket is never closed twice and is closed once when its
\* handler has finished; only connection h's own handler closes or writes to
\* connection h's client socket.
C6_ClientClosedOnce ==
    /\ [](\A h \in H : /\ client_closed[h] <= 1
                       /\ pc[h] = "done" => client_closed[h] = 1)
    /\ [][\A h \in H :
            (client_closed'[h] # client_closed[h] \/ cOut'[h] # cOut[h])
                => handle_client(h)]_vars

\* C6 witness: two connections are finished, one whose client sent nothing
\* and one that went through a tunnel
C6_Witness ==
    \E h, g \in H :
        /\ pc[h] = "done" /\ acquired[h] = 0 /\ client_closed[h] = 1
        /\ pc[g] = "done" /\ tunnel[g] /\ client_closed[g] = 1

\* C7: when a handler has finished, the upstream socket it opened is closed.
C7_UpstreamClosed ==
    \A h \in H : pc[h] = "done" => upstream_sock[h] \in {"none", "closed"}

\* the first line of a response of class r contains 200
StatusLineHas200(r) == r \in {"Yp", "Y"}
\* the first thing the client was sent is the response read from upstream
Forwarded(h) == cOut[h] # <<>> /\ cOut[h][1] = <<response[h], 0>>
\* C9 as claimed: the relay is entered if and only if the response's first
\* line contains 200, and whenever upstream answered, what the client has been
\* sent begins with exactly the response, never with a synthesized status
\* (read for a client that was sent anything at all).
C9_Original ==
    \A h \in H :
        /\ tunnel[h] => StatusLineHas200(response[h])
        /\ (pc[h] = "done" /\ StatusLineHas200(response[h]) /\ cOut[h] # <<>>)
               => tunnel[h]
        /\ (response[h] # "" /\ cOut[h] # <<>>) => Forwarded(h)

\* C9 as amended: the relay is entered only with a response whose first line
\* contains 200 and only after exactly that response was sent to the client;
\* a forwarded response with 200 always starts the relay; a handler that left
\* the negotiation without an exception has forwarded what upstream answered;
\* a response is forwarded once, first and unmodified or not at all, and
\* then the client was sent at most a synthesized 502.
C9_Amended ==
    \A h \in H :
        /\ tunnel[h] => StatusLineHas200(response[h]) /\ Forwarded(h)
        /\ (Forwarded(h) /\ StatusLineHas200(response[h])) => tunnel[h]
        /\ (pc[h] \in Relaying \cup {"connect_close"} /\ response[h] # "")
               => Forwarded(h)
        /\ \A i \in 1..Len(cOut[h]) :
               cOut[h][i][1] \in {"Np", "Yp", "N", "Y"}
                   => i = 1 /\ cOut[h][i][1] = response[h]
        /\ (request_data[h] = "C2" /\ ~Forwarded(h))
               => cOut[h] \in {<<>>, << <<"502", 0>> >>}

\* C9 witness: one connection got a complete non-200 response forwarded and
\* no relay, another got a 200 response forwarded and a relay
C9_Witness ==
    \E h, g \in H :
        /\ pc[h] = "done" /\ response[h] = "N" /\ ~tunnel[h]
        /\ cOut[h] = << <<"N", 0>> >>
        /\ tunnel[g] /\ response[g] = "Y" /\ cOut[g][1] = <<"Y", 0>>

\* the data tokens of a sequence of tokens, in order
RECURSIVE DataOf(_)
DataOf(s) ==
    IF s = <<>> THEN <<>>
    ELSE IF Head(s)[1] = "data" THEN <<Head(s)[2]>> \o DataOf(Tail(s))
    ELSE DataOf(Tail(s))
\* s is <<1, 2, ..., Len(s)>>
InOrder(s) == \A i \in 1..Len(s) : s[i] = i

\* C10: in an established tunnel, what has been delivered to either side is
\* what the other side wrote, in order and once; and a chunk the client wrote
\* is eventually delivered to the upstream unless a side closes or the relay
\* ends, whatever travels the other way.
C10_Delivery ==
    /\ [](\A h \in H : tunnel[h] =>
            /\ InOrder(DataOf(uOut[h])) /\ InOrder(DataOf(cOut[h]))
            /\ Len(DataOf(uOut[h])) <= cSent[h]
            /\ Len(DataOf(cOut[h])) <= uSent[h])
    /\ \A h \in H :
         (pc[h] \in Relaying /\ cIn[h] # <<>>)
             ~> (cIn[h] = <<>> \/ pc[h] \notin Relaying \/ cEof[h] \/ uEof[h])

\* the lines of s that are the injected line
AuthAt(s) == {i \in 1..Len(s) : s[i] = AuthLine}
\* s without its i-th element
Without(s, i) == SubSeq(s, 1, i - 1) \o SubSeq(s, i + 1, Len(s))
\* the blank line that ends the header block: the first empty line
FirstBlank(s) == CHOOSE i \in 1..Len(s) : s[i] = "" /\ \A j \in 1..(i - 1) : s[j] # ""

\* C8: with credentials, what is sent has exactly one injected
\* Proxy-Authorization line, after the request line and before the blank
\* line that ends the headers; the request line is first and unchanged, and
\* the other lines are the original ones in their order.
C8_InjectOnce ==
    (rw_pc = "sent" /\ auth_header # "") =>
        /\ Cardinality(AuthAt(rw_sent)) = 1
        /\ \A i \in AuthAt(rw_sent) :
             /\ i > 1
             /\ i < FirstBlank(rw_sent)
             /\ Without(rw_sent, i) = rw_request
        /\ rw_sent[1] = rw_request[1]

\* the synthesized status lines
Status400 == <<"400", 0>>
Status502 == <<"502", 0>>
\* handler h takes a step that leaves position l
Leaves(h, l) == pc[h] = l /\ pc'[h] # l
\* a call raises in this step
Raises == faults' < faults

\* C11: for a CONNECT line with fewer than two tokens no upstream socket is
\* ever created, dialed or written to; the parse step writes the 400 to the
\* client (or that write raises, the client being gone) and nothing else is
\* ever written to it; and the handler, once it holds its token, finishes
\* with the token released and the client socket closed.
C11_BadConnect ==
    /\ [](\A h \in H : request_data[h] = "C1" =>
            /\ dials[h] = 0 /\ upstream_sock[h] = "none" /\ uOut[h] = <<>>
            /\ cOut[h] \in {<<>>, <<Status400>>}
            /\ pc[h] = "done" => (released[h] = 1 /\ client_closed[h] = 1))
    /\ [][\A h \in H :
            (request_data[h] = "C1" /\ Leaves(h, "connect_parse"))
                => (cOut'[h] = <<Status400>> \/ Raises)]_vars
    /\ \A h \in H : (request_data[h] = "C1" /\ Holds(h)) ~> (pc[h] = "done")

\* C11 witness: a handler finished after answering 400 to a one-token CONNECT
C11_Witness ==
    \E h \in H :
        /\ request_data[h] = "C1" /\ pc[h] = "done" /\ cOut[h] = <<Status400>>
        /\ released[h] = 1 /\ client_closed[h] = 1 /\ dials[h] = 0

\* positions of the except clauses of handle_connect and handle_http
InExcept == {"connect_except", "http_except"}

\* C12: a connection's upstream is dialed at most once; a dial that raises
\* leads to the except clause, which writes the 502 to the client (or that
\* write raises, the client being gone), dials nothing and leaves the handler
\* to finish with the client socket closed.
C12_DialOnce ==
    /\ [](\A h \in H : /\ dials[h] <= 1
                       /\ dials[h] = 0 <=> upstream_sock[h] = "none")
    /\ [][\A h \in H :
            /\ (pc[h] \in {"connect_dial", "http_dial"} /\ pc'[h] # pc[h] /\ Raises)
                  => (pc'[h] \in InExcept /\ upstream_sock'[h] = "unconnected")
            /\ (pc[h] \in InExcept /\ pc'[h] # pc[h])
                  => /\ pc'[h] = "release"
                     /\ dials'[h] = dials[h]
                     /\ cOut'[h] = Append(cOut[h], Status502) \/ Raises]_vars
    /\ \A h \in H :
         (pc[h] \in InExcept /\ upstream_sock[h] = "unconnected")
             ~> (pc[h] = "done" /\ client_closed[h] = 1)

\* C12 witness: a handler finished after a failed dial, its client sent 502
C12_Witness ==
    \E h \in H :
        /\ pc[h] = "done" /\ upstream_sock[h] = "unconnected" /\ dials[h] = 1
        /\ cOut[h] = <<Status502>> /\ uOut[h] = <<>>

\* C13: as long as nothing was read from the client, the handler has acquired
\* no token, created no upstream socket and written nothing to either side;
\* a close seen with nothing read leads straight to the finally clause; and
\* the handler then finishes with the client socket closed.
C13_SilentClose ==
    /\ [](\A h \in H : request_data[h] = "" =>
            /\ acquired[h] = 0 /\ dials[h] = 0 /\ upstream_sock[h] = "none"
            /\ cOut[h] = <<>> /\ uOut[h] = <<>>
            /\ pc[h] = "done" => client_closed[h] = 1)
    /\ [][\A h \in H :
            (pc[h] = "recv_first" /\ request_data[h] = "" /\ ~cEof[h] /\ cEof'[h])
                => pc'[h] = "finally"]_vars
    /\ \A h \in H :
         (pc[h] = "finally" /\ request_data[h] = "")
             ~> (pc[h] = "done" /\ client_closed[h] = 1)

\* C13 witness: the client closed with nothing sent and the handler is in its
\* finally clause, having acquired and written nothing
C13_Witness ==
    \E h \in H :
        /\ pc[h] = "finally" /\ cEof[h] /\ request_data[h] = ""
        /\ acquired[h] = 0 /\ cOut[h] = <<>>

C15_NoTokenWhileReading == \A h \in H : Holds(h) => pc[h] # "recv_rest"

\* C16: when the client's stream ended before a CRLF arrived (the buffer has
\* no CRLF and the first loop is over), no token is acquired, no upstream is
\* dialed and nothing is written to the client.
C16_SilentAbandon ==
    \A h \in H :
        (~HasCRLF(request_data[h]) /\ pc[h] # "recv_first")
            => (acquired[h] = 0 /\ dials[h] = 0 /\ cOut[h] = <<>>)

\* C17: for a plain HTTP request nothing is written upstream unless the
\* header block with its blank line has been read; for CONNECT the upstream
\* is dialed only after the parse step.
C17_ReadBeforeForward ==
    \A h \in H :
        /\ (~StartsWithConnect(request_data[h]) /\ uOut[h] # <<>>)
               => HasBlank(request_data[h])
        /\ (StartsWithConnect(request_data[h]) /\ dials[h] > 0)
               => pc[h] \notin {"recv_first", "acquire", "connect_parse"}

\* x is an element of the sequence s
InSeq(x, s) == \E i \in 1..Len(s) : s[i] = x

\* C18: a chunk of the body that the client writes while handle_http is
\* relaying the response is eventually written to the upstream (read for an
\* upstream that has not closed its side).
C18_BodyForwarded ==
    \A h \in H : \A n \in 1..Quota :
        (pc[h] = "http_recv" /\ InSeq(n, cIn[h]))
            ~> (InSeq(<<"data", n>>, uOut[h]) \/ uEof[h])

\* kinds of the tokens that carry bytes the upstream wrote
FromUpstream == {"data", "Np", "Yp", "N", "Y"}

\* C19: nothing synthesized by the proxy is written to the client after bytes
\* that came from the upstream.
C19_NoStatusAfterData ==
    \A h \in H : \A i, j \in 1..Len(cOut[h]) :
        (i < j /\ cOut[h][i][1] \in FromUpstream)
            => cOut[h][j] \notin {Status400, Status502}

\* C20: when the CONNECT negotiation ended because the upstream closed before
\* the blank line of its response (the response is incomplete and the code
\* went on to upstream_sock.close(), which no exception path reaches), the
\* client has been sent a 502 by the time its socket is closed.
C20_EarlyClose502 ==
    \A h \in H :
        (/\ client_closed[h] = 1
         /\ StartsWithConnect(request_data[h])
         /\ upstream_sock[h] = "closed"
         /\ ~RespComplete(response[h]))
            => InSeq(Status502, cOut[h])

====
